---------------------------- MODULE Spec2Model ----------------------------
(***************************************************************************)
(* A model of DeepLearningFromScratch.ipynb: a 4 -> 16 -> 16 -> 1          *)
(* feed-forward network (ReLU, ReLU, logistic) trained by per-sample       *)
(* gradient descent and evaluated on a held-out split.                     *)
(*                                                                         *)
(* Numbers.  NumPy's float64 values are modelled as fixed-point integers:  *)
(* the integer v stands for the real v / Scale.  Every product and         *)
(* quotient is rounded to the nearest representable value, as a floating   *)
(* point unit does, so the model has finite precision like the program     *)
(* (logistic saturates to exactly 0 and 1 for large arguments, results of  *)
(* small magnitude round to 0), only at a coarser grain.  Where float64    *)
(* overflows (exp beyond 709.78) the outcome is modelled by its IEEE       *)
(* result: see ExpOverflow, OnePlusExpIsOne and NaN.                       *)
(*                                                                         *)
(* Tensors.  A NumPy array of shape (n, m) is a sequence of n rows, each   *)
(* a sequence of m numbers; an array of shape (n,) is a sequence of n      *)
(* numbers.                                                                *)
(*                                                                         *)
(* State.  The variables are the notebook's global names.  The cells run   *)
(* top to bottom; the training cell is split at its three calls (forward,  *)
(* backward, update) and pc says which comes next.                         *)
(***************************************************************************)
EXTENDS Integers, Sequences, FiniteSets

\* ------------------------------------------------------------------ bounds

\* Fixed-point grain: v stands for v / Scale.
Scale == 1000

\* How many of the shuffled, standardized tables TableAt(1..NumTables) and of
\* the initial parameter draws PresetAt(1..NumPresets) Init chooses from.
NumTables == 6

NumPresets == 2

\* The pre-activations handed to logistic and d_logistic on their own:
\* -MaxSteps..MaxSteps quarters of a unit.
MaxSteps == 3000

\* ------------------------------------------------------- program constants

\* np.random.rand(16, 4): 4 predictors, 16 units per hidden layer.
NIn == 4

NHidden == 16

\* epochs = 100
epochs == 100

\* learning_rate = .01
learning_rate == Scale \div 100

\* -------------------------------------------------------------- arithmetic

Abs(v) == IF v < 0 THEN -v ELSE v

Sign(v) == IF v < 0 THEN -1 ELSE 1

\* n / d rounded to the nearest integer, halves away from zero (d > 0).
RDiv(n, d) == Sign(n) * ((Abs(n) + d \div 2) \div d)

\* The product of two fixed-point numbers, rounded to nearest.  |a| * |b| is
\* split at Scale so that no intermediate exceeds 32 bits.
Mul(a, b) ==
    IF a = 0 \/ b = 0 THEN 0
    ELSE LET x == Abs(a)
             y == Abs(b)
         IN  Sign(a) * Sign(b)
                * (x * (y \div Scale) + (x * (y % Scale) + Scale \div 2) \div Scale)

\* np.exp on a fixed-point argument: argument halving down to |v| <= 1/4,
\* there the Taylor polynomial of degree 4.
ExpTaylor(v) ==
    LET h4 == Scale + RDiv(v, 4)
        h3 == Scale + RDiv(Mul(v, h4), 3)
        h2 == Scale + RDiv(Mul(v, h3), 2)
    IN  Scale + Mul(v, h2)

RECURSIVE ExpFx(_)
ExpFx(v) ==
    IF Abs(v) <= Scale \div 4
    THEN ExpTaylor(v)
    ELSE LET h == v \div 2 IN Mul(ExpFx(h), ExpFx(v - h))

\* Beyond |v| = ExpRange the quotients of logistic and d_logistic no longer
\* differ from their limits at the model's grain.
ExpRange == 7 * Scale

\* ----------------------------------------------------------------- tensors

Rows(A) == Len(A)

Cols(A) == Len(A[1])

Shape(A) == <<Rows(A), Cols(A)>>

Max2(a, b) == IF a >= b THEN a ELSE b

\* A new array of shape (n, m) with F(r, c) at row r, column c, and a new 1-D
\* array of n elements; both are computed once, when they are built.
Tensor(n, m, F(_, _)) == [r \in 1..n |-> [c \in 1..m |-> F(r, c)] \o <<>>] \o <<>>

Vector(n, F(_)) == [k \in 1..n |-> F(k)] \o <<>>

\* NumPy broadcasting of a 2-D operand: an axis of length 1 is repeated.
At(A, r, c) == A[IF Rows(A) = 1 THEN 1 ELSE r][IF Cols(A) = 1 THEN 1 ELSE c]

\* A + B, A - B and A * B element by element, with broadcasting.
Add(A, B) ==
    LET F(r, c) == At(A, r, c) + At(B, r, c)
    IN  Tensor(Max2(Rows(A), Rows(B)), Max2(Cols(A), Cols(B)), F)

Sub(A, B) ==
    LET F(r, c) == At(A, r, c) - At(B, r, c)
    IN  Tensor(Max2(Rows(A), Rows(B)), Max2(Cols(A), Cols(B)), F)

Hadamard(A, B) ==
    LET F(r, c) == Mul(At(A, r, c), At(B, r, c))
    IN  Tensor(Max2(Rows(A), Rows(B)), Max2(Cols(A), Cols(B)), F)

\* A -= B: the left operand keeps its shape, B is broadcast to it.
ISub(A, B) ==
    LET F(r, c) == A[r][c] - At(B, r, c)
    IN  Tensor(Rows(A), Cols(A), F)

\* s * A for a float scalar s, and n * A for a Python int n.
SMul(s, A) ==
    LET F(r, c) == Mul(s, A[r][c])
    IN  Tensor(Rows(A), Cols(A), F)

IntMul(n, A) ==
    LET F(r, c) == n * A[r][c]
    IN  Tensor(Rows(A), Cols(A), F)

\* A.T, had it been written A.reshape(A.shape[1], A.shape[0]): the elements
\* in row-major order, cut into rows of the new length.
TransposeAsReshape(A) ==
    LET F(r, c) == A[(((r - 1) * Rows(A) + c - 1) \div Cols(A)) + 1]
                    [(((r - 1) * Rows(A) + c - 1) % Cols(A)) + 1]
    IN  Tensor(Cols(A), Rows(A), F)

\* A.T
Transpose(A) ==
    LET F(r, c) == A[c][r]
    IN  Tensor(Cols(A), Rows(A), F)

RECURSIVE DotTo(_, _, _, _, _)
DotTo(A, B, r, c, k) ==
    IF k = 0 THEN 0 ELSE DotTo(A, B, r, c, k - 1) + Mul(A[r][k], B[k][c])

\* A @ B
MatMul(A, B) ==
    LET F(r, c) == DotTo(A, B, r, c, Cols(A))
    IN  Tensor(Rows(A), Cols(B), F)

\* v.reshape(-1, 1) of a 1-D array: a column.
Column(v) ==
    LET F(r, c) == v[r]
    IN  Tensor(Len(v), 1, F)

\* A 1-D operand of a 2-D operation is broadcast as a single row.
Row(v) == <<v>>

\* A.flatten().tolist()
Flatten(A) ==
    LET F(k) == A[((k - 1) \div Cols(A)) + 1][((k - 1) % Cols(A)) + 1]
    IN  Vector(Rows(A) * Cols(A), F)

\* An integer array (the labels read from the table) used as floats.
ToFloat(v) ==
    LET F(k) == v[k] * Scale
    IN  Vector(Len(v), F)

\* ------------------------------------------------------ activation functions

\* relu, had it been written np.abs(x).
relu_abs(x) ==
    LET F(r, c) == Abs(x[r][c])
    IN  Tensor(Rows(x), Cols(x), F)

\* np.maximum(x, 0)
relu(x) ==
    LET F(r, c) == Max2(x[r][c], 0)
    IN  Tensor(Rows(x), Cols(x), F)

\* float64: np.exp(v) overflows to inf, with a RuntimeWarning and no
\* exception, for every v above ln(1.797e308) = 709.7827...
ExpOverflow == (709783 * Scale) \div 1000

\* float64: 1 + np.exp(-v) is exactly 1.0 for every v above
\* 53 ln 2 = 36.7368..., where np.exp(-v) is below half a unit in the last
\* place of 1.0.
OnePlusExpIsOne == (36737 * Scale) \div 1000

\* The float nan, which no finite value of the model equals.
NaN == -2147483647

\* 1 / (1 + inf) is exactly 0.0, and 1 / 1.0 is exactly 1.0.
LogisticIsZero(v) == v < -ExpOverflow

LogisticIsOne(v) == v > OnePlusExpIsOne

LogisticFx(v) ==
    IF v > ExpRange THEN Scale
    ELSE IF v < -ExpRange THEN 0
    ELSE RDiv(Scale * Scale, Scale + ExpFx(-v))

\* 1 / (1 + np.exp(-x))
logistic(x) ==
    LET F(r, c) == LogisticFx(x[r][c])
    IN  Tensor(Rows(x), Cols(x), F)

\* d_relu, had it been the derivative of a leaky relu,
\* np.where(x > 0, 1, 0.01).
d_relu_leaky(x) ==
    LET F(r, c) == IF x[r][c] > 0 THEN Scale ELSE Scale \div 100
    IN  Tensor(Rows(x), Cols(x), F)

\* d_relu, had it been written x >= 0.
d_relu_at_zero(x) ==
    LET F(r, c) == IF x[r][c] >= 0 THEN Scale ELSE 0
    IN  Tensor(Rows(x), Cols(x), F)

\* x > 0, a boolean array; in a product True counts as 1.0 and False as 0.0.
d_relu(x) ==
    LET F(r, c) == IF x[r][c] > 0 THEN Scale ELSE 0
    IN  Tensor(Rows(x), Cols(x), F)

\* Below -ExpOverflow np.exp(-v) is inf and the quotient inf / inf is nan.
DLogisticFx(v) ==
    IF v < -ExpOverflow THEN NaN
    ELSE IF Abs(v) > ExpRange THEN 0
    ELSE LET e == ExpFx(-v)
             d == Scale + e
         IN  RDiv(e * Scale, Mul(d, d))

\* np.exp(-x) / (1 + np.exp(-x)) ** 2
d_logistic(x) ==
    LET F(r, c) == DLogisticFx(x[r][c])
    IN  Tensor(Rows(x), Cols(x), F)

\* Rounding, had it been int(x + 0.5): a half goes up.
RoundHalfUp(v) == (2 * v + Scale) \div (2 * Scale)

\* x.round().astype(int): NumPy rounds to the nearest integer and a half to
\* the even neighbour; the cast then yields that integer.
RoundHalfEven(v) ==
    LET q == v \div Scale
        r == v % Scale
    IN  IF 2 * r < Scale THEN q
        ELSE IF 2 * r > Scale THEN q + 1
        ELSE IF q % 2 = 0 THEN q ELSE q + 1

RoundToInt(x) ==
    LET F(r, c) == RoundHalfEven(x[r][c])
    IN  Tensor(Rows(x), Cols(x), F)

\* -------------------------------------------------------------------- data

RECURSIVE Pow2(_)
Pow2(n) == IF n = 0 THEN 1 ELSE 2 * Pow2(n - 1)

\* The table after the shuffle and the standardization: every predictor
\* column has mean 0 and sample standard deviation 1.  Table k has 3 rows
\* (columns are rotations of -1, 0, 1), 4 rows (one -1.5 and three 0.5) or
\* 5 rows (rotations of -1, -1, 0, 1, 1); its labels are the binary digits
\* of k.
TableRows(k) == 3 + (k % 3)

Feature(k, r, c) ==
    IF TableRows(k) = 3
    THEN (((r + c + k) % 3) - 1) * Scale
    ELSE IF TableRows(k) = 4
    THEN (IF (r + c + k) % 4 = 0 THEN -((3 * Scale) \div 2) ELSE Scale \div 2)
    ELSE (IF (r + c + k) % 5 < 2 THEN -Scale
          ELSE IF (r + c + k) % 5 = 2 THEN 0 ELSE Scale)

Label(k, r) == (k \div Pow2(r - 1)) % 2

TableAt(k) ==
    LET F(r, c) == IF c <= NIn THEN Feature(k, r, c) ELSE Label(k, r)
    IN  Tensor(TableRows(k), NIn + 1, F)

\* data.iloc[:, :4] and data.iloc[:, 4:5]
Predictors(d) ==
    LET F(r, c) == d[r][c]
    IN  Tensor(Len(d), NIn, F)

Response(d) ==
    LET F(r, c) == d[r][NIn + c]
    IN  Tensor(Len(d), 1, F)

\* The split index, had it been round(len(data) * 2/3).
SplitIndexRounded(d) == (Len(d) * 4 + 3) \div 6

\* int(len(data) * 2/3)
SplitIndex(d) == (Len(d) * 2) \div 3

\* a.iloc[:n, :] and a.iloc[n:, :]
TakeRows(a, n) == SubSeq(a, 1, n)

DropRows(a, n) == SubSeq(a, n + 1, Len(a))

\* ------------------------------------------------------ initial parameters

\* np.random.rand draws from [0, 1).  Draw 1 is all zeros; the others are
\* sparse: hidden unit r of layer 1 reads predictor ((r-1) mod 4) + 1, unit j
\* of layer 2 reads units j and j + 8 of layer 1, the output reads the first
\* four units of layer 2.
Hi(p) == ((11 - p) * Scale) \div 10

\* np.random.rand(n, m): the value drawn for row r, column c of each tensor.
DrawW1(p, r, c) == IF p > 1 /\ c = ((r - 1) % NIn) + 1 THEN Hi(p) ELSE 0

DrawB1(p, r, c) == IF p > 1 /\ 2 * r > NHidden THEN Scale \div 2 ELSE 0

DrawW2(p, r, c) ==
    IF p > 1 /\ (c = r \/ c = ((r + (NHidden \div 2) - 1) % NHidden) + 1)
    THEN Scale \div 2 ELSE 0

DrawB2(p, r, c) == IF p > 1 /\ r % 2 = 0 THEN Scale \div 4 ELSE 0

DrawW3(p, r, c) == IF p > 1 /\ 4 * c <= NHidden THEN Hi(p) ELSE 0

DrawB3(p, r, c) == 0

\* How many values one parameter cell draws.
NumDraws == NHidden * NIn + NHidden + NHidden * NHidden + NHidden + NHidden + 1

\* The n-th value np.random.rand yields after np.random.seed: row by row
\* the values of the six tensors in the order they are drawn after seeding,
\* then further values of [0, 1).
Stream(p, n) ==
    LET a == n - 1
        b == a - NHidden * NIn
        c == b - NHidden
        d == c - NHidden * NHidden
        e == d - NHidden
        f == e - NHidden
    IN  IF a < NHidden * NIn THEN DrawW1(p, (a \div NIn) + 1, (a % NIn) + 1)
        ELSE IF b < NHidden THEN DrawB1(p, b + 1, 1)
        ELSE IF c < NHidden * NHidden
             THEN DrawW2(p, (c \div NHidden) + 1, (c % NHidden) + 1)
        ELSE IF d < NHidden THEN DrawB2(p, d + 1, 1)
        ELSE IF e < NHidden THEN DrawW3(p, 1, e + 1)
        ELSE IF f < 1 THEN DrawB3(p, 1, 1)
        ELSE ((n % 10) * Scale) \div 10

\* np.random.rand(n, m) of a generator that has yielded at values since it
\* was seeded: the next n * m values, row by row.
Rand(p, at, n, m) ==
    LET F(r, c) == Stream(p, at + (r - 1) * m + c)
    IN  Tensor(n, m, F)

\* The six draws of a parameter cell, in the order of its statements, by a
\* generator that has yielded at values since it was seeded.
ParameterCell(p, at) ==
    LET at_b1 == at + NHidden * NIn
        at_w2 == at_b1 + NHidden
        at_b2 == at_w2 + NHidden * NHidden
        at_w3 == at_b2 + NHidden
        at_b3 == at_w3 + NHidden
    IN  [w1 |-> Rand(p, at, NHidden, NIn),
         b1 |-> Rand(p, at_b1, NHidden, 1),
         w2 |-> Rand(p, at_w2, NHidden, NHidden),
         b2 |-> Rand(p, at_b2, NHidden, 1),
         w3 |-> Rand(p, at_w3, 1, NHidden),
         b3 |-> Rand(p, at_b3, 1, 1)]

\* The first parameter cell: np.random.seed(seed), then the six draws.
FirstParameterCell(p) == ParameterCell(p, 0)

\* The second parameter cell, had it lacked np.random.seed(seed): the
\* generator continues where the first cell left it.
PresetAtWithoutSeed(p) == ParameterCell(p, NumDraws)

\* The second parameter cell, run just before training:
\* np.random.seed(seed), then the six draws.
PresetAt(p) == ParameterCell(p, 0)

\* ------------------------------------------------------------------- state

VARIABLES
    training_predictors, training_response,   \* the first 2/3 of the table
    testing_predictors, testing_response,     \* the rest
    w_first_hidden, b_first_hidden,           \* (16, 4), (16, 1)
    w_second_hidden, b_second_hidden,         \* (16, 16), (16, 1)
    w_output, b_output,                       \* (1, 16), (1, 1)
    epoch, i,                                 \* the loop counters
    predictor_batch, target_batch,            \* the sample of the current step
    first_algebra, first_function,            \* what forward_propagation returned
    second_algebra, second_function,
    output_algebra, result,
    d_loss__d_w_output, d_loss__d_b_output,   \* what backward_propagation returned
    d_loss__d_w_second_hidden, d_loss__d_b_second_hidden,
    d_loss__d_w_first_hidden, d_loss__d_b_first_hidden,
    predictions, TP, FP, TN, FN, accuracy,    \* the evaluation cell
    pc,                                       \* the statement that runs next
    updates, visits                           \* history: update steps done, and per sample

dataVars == <<training_predictors, training_response, testing_predictors, testing_response>>

paramVars == <<w_first_hidden, b_first_hidden, w_second_hidden, b_second_hidden,
               w_output, b_output>>

loopVars == <<epoch, i>>

batchVars == <<predictor_batch, target_batch>>

cacheVars == <<first_algebra, first_function, second_algebra, second_function,
               output_algebra, result>>

gradVars == <<d_loss__d_w_output, d_loss__d_b_output,
              d_loss__d_w_second_hidden, d_loss__d_b_second_hidden,
              d_loss__d_w_first_hidden, d_loss__d_b_first_hidden>>

evalVars == <<predictions, TP, FP, TN, FN, accuracy>>

histVars == <<updates, visits>>

vars == <<dataVars, paramVars, loopVars, batchVars, cacheVars, gradVars, evalVars, pc, histVars>>

\* A name that holds no array yet.
Unset == <<>>

\* ------------------------------------------------------------- propagation

\* forward_propagation, had its return statement listed each activation
\* before its pre-activation.
forward_propagation_swapped(input_vector) ==
    LET first_algebra_ == Add(MatMul(w_first_hidden, input_vector), b_first_hidden)
        first_function_ == relu(first_algebra_)
        second_algebra_ == Add(MatMul(w_second_hidden, first_function_), b_second_hidden)
        second_function_ == relu(second_algebra_)
        output_algebra_ == Add(MatMul(w_output, second_function_), b_output)
        result_ == logistic(output_algebra_)
    IN  <<first_function_, first_algebra_, second_function_, second_algebra_,
          output_algebra_, result_>>

\* forward_propagation reads the six parameter tensors from the globals.
forward_propagation(input_vector) ==
    LET first_algebra_ == Add(MatMul(w_first_hidden, input_vector), b_first_hidden)
        first_function_ == relu(first_algebra_)
        second_algebra_ == Add(MatMul(w_second_hidden, first_function_), b_second_hidden)
        second_function_ == relu(second_algebra_)
        output_algebra_ == Add(MatMul(w_output, second_function_), b_output)
        result_ == logistic(output_algebra_)
    IN  <<first_algebra_, first_function_, second_algebra_, second_function_,
          output_algebra_, result_>>

\* The body of backward_propagation, with the two tensors it reads from the
\* globals (w_output, line 745, and w_second_hidden, line 755) as wo and wsh.
backward_with(wo, wsh, p_first_algebra, p_first_function, p_second_algebra, p_second_function, p_output_algebra, p_result, p_input_vector, p_real_value) ==
    LET d_loss__d_result_ == IntMul(2, Sub(p_result, Row(ToFloat(p_real_value))))
        d_result__d_output_algebra_ == d_logistic(p_output_algebra)
        d_loss__d_output_algebra_ == Hadamard(d_loss__d_result_, d_result__d_output_algebra_)
        d_loss__d_w_output_ == MatMul(d_loss__d_output_algebra_, Transpose(p_second_function))
        d_loss__d_b_output_ == d_loss__d_output_algebra_
        d_loss__d_second_function_ == MatMul(Transpose(wo), d_loss__d_output_algebra_)
        d_second_function__d_second_algebra_ == d_relu(p_second_algebra)
        d_loss__d_second_algebra_ == Hadamard(d_second_function__d_second_algebra_, d_loss__d_second_function_)
        d_loss__d_w_second_hidden_ == MatMul(d_loss__d_second_algebra_, Transpose(p_first_function))
        d_loss__d_b_second_hidden_ == d_loss__d_second_algebra_
        d_loss__d_first_function_ == MatMul(Transpose(wsh), d_loss__d_second_algebra_)
        d_first_function__d_first_algebra_ == d_relu(p_first_algebra)
        d_loss__d_first_algebra_ == Hadamard(d_first_function__d_first_algebra_, d_loss__d_first_function_)
        d_loss__d_w_first_hidden_ == MatMul(d_loss__d_first_algebra_, Transpose(p_input_vector))
        d_loss__d_b_first_hidden_ == d_loss__d_first_algebra_
    IN  <<d_loss__d_w_output_, d_loss__d_b_output_,
          d_loss__d_w_second_hidden_, d_loss__d_b_second_hidden_,
          d_loss__d_w_first_hidden_, d_loss__d_b_first_hidden_>>

\* backward_propagation, had it recomputed the network output from the
\* globals instead of using its argument result: a call that reads b_output.
backward_propagation_recomputes_result(p_first_algebra, p_first_function, p_second_algebra, p_second_function, p_output_algebra, p_result, p_input_vector, p_real_value) ==
    backward_with(w_output, w_second_hidden,
                  p_first_algebra, p_first_function, p_second_algebra,
                  p_second_function, p_output_algebra,
                  logistic(Add(MatMul(w_output, p_second_function), b_output)),
                  p_input_vector, p_real_value)

\* backward_propagation, had it returned the first layer's bias gradient as
\* a row (d_loss__d_first_algebra.T).
backward_propagation_row_bias(p_first_algebra, p_first_function, p_second_algebra, p_second_function, p_output_algebra, p_result, p_input_vector, p_real_value) ==
    LET g == backward_with(w_output, w_second_hidden,
                           p_first_algebra, p_first_function, p_second_algebra,
                           p_second_function, p_output_algebra, p_result,
                           p_input_vector, p_real_value)
    IN  <<g[1], g[2], g[3], g[4], g[5], Transpose(g[6])>>

\* backward_propagation takes eight arguments and reads w_output and
\* w_second_hidden from the globals at the time of the call.
backward_propagation(p_first_algebra, p_first_function, p_second_algebra, p_second_function, p_output_algebra, p_result, p_input_vector, p_real_value) ==
    backward_with(w_output, w_second_hidden,
                  p_first_algebra, p_first_function, p_second_algebra,
                  p_second_function, p_output_algebra, p_result,
                  p_input_vector, p_real_value)

\* ------------------------------------------------------------------- cells

\* The preprocessing cells' split and the parameter cell.
Init ==
    \E k \in 1..NumTables, p \in 1..NumPresets :
        LET data == TableAt(k)
            split_index == SplitIndex(data)
            drawn == PresetAt(p)
        IN  /\ training_predictors = TakeRows(Predictors(data), split_index)
            /\ testing_predictors = DropRows(Predictors(data), split_index)
            /\ training_response = TakeRows(Response(data), split_index)
            /\ testing_response = DropRows(Response(data), split_index)
            /\ w_first_hidden = drawn.w1
            /\ b_first_hidden = drawn.b1
            /\ w_second_hidden = drawn.w2
            /\ b_second_hidden = drawn.b2
            /\ w_output = drawn.w3
            /\ b_output = drawn.b3
            /\ epoch = 0
            /\ i = 0
            /\ predictor_batch = Unset
            /\ target_batch = Unset
            /\ first_algebra = Unset
            /\ first_function = Unset
            /\ second_algebra = Unset
            /\ second_function = Unset
            /\ output_algebra = Unset
            /\ result = Unset
            /\ d_loss__d_w_output = Unset
            /\ d_loss__d_b_output = Unset
            /\ d_loss__d_w_second_hidden = Unset
            /\ d_loss__d_b_second_hidden = Unset
            /\ d_loss__d_w_first_hidden = Unset
            /\ d_loss__d_b_first_hidden = Unset
            /\ predictions = Unset
            /\ TP = 0
            /\ FP = 0
            /\ TN = 0
            /\ FN = 0
            /\ accuracy = 0
            /\ pc = IF epochs > 0 /\ split_index > 0 THEN "forward" ELSE "trained"
            /\ updates = 0
            /\ visits = [n \in 1..split_index |-> 0]

\* Forward, had "get a batch" taken the label at index i - 1 (which Python
\* wraps to the last row when i = 0).
ForwardLabelOffByOne ==
    /\ pc = "forward"
    /\ predictor_batch' = Column(training_predictors[i + 1])
    /\ target_batch' = training_response[IF i = 0 THEN Len(training_response) ELSE i]
    /\ LET out == forward_propagation(predictor_batch')
       IN  /\ first_algebra' = out[1]
           /\ first_function' = out[2]
           /\ second_algebra' = out[3]
           /\ second_function' = out[4]
           /\ output_algebra' = out[5]
           /\ result' = out[6]
    /\ pc' = "backward"
    /\ UNCHANGED <<dataVars, paramVars, loopVars, gradVars, evalVars, histVars>>

\* Forward, had forward_propagation built first_algebra in place in the bias
\* array (first_algebra = b_first_hidden; first_algebra += w @ x).
ForwardAddsInPlace ==
    /\ pc = "forward"
    /\ predictor_batch' = Column(training_predictors[i + 1])
    /\ target_batch' = training_response[i + 1]
    /\ LET out == forward_propagation(predictor_batch')
       IN  /\ first_algebra' = out[1]
           /\ first_function' = out[2]
           /\ second_algebra' = out[3]
           /\ second_function' = out[4]
           /\ output_algebra' = out[5]
           /\ result' = out[6]
           /\ b_first_hidden' = out[1]
    /\ pc' = "backward"
    /\ UNCHANGED <<dataVars, w_first_hidden, w_second_hidden, b_second_hidden,
                   w_output, b_output, loopVars, gradVars, evalVars, histVars>>

\* "get a batch" and "Run the forward propagation" of step (epoch, i).
Forward ==
    /\ pc = "forward"
    /\ predictor_batch' = Column(training_predictors[i + 1])
    /\ target_batch' = training_response[i + 1]
    /\ LET out == forward_propagation(predictor_batch')
       IN  /\ first_algebra' = out[1]
           /\ first_function' = out[2]
           /\ second_algebra' = out[3]
           /\ second_function' = out[4]
           /\ output_algebra' = out[5]
           /\ result' = out[6]
    /\ pc' = "backward"
    /\ UNCHANGED <<dataVars, paramVars, loopVars, gradVars, evalVars, histVars>>

\* "Run the backward propagation" of step (epoch, i).
Backward ==
    /\ pc = "backward"
    /\ LET out == backward_propagation(first_algebra, first_function, second_algebra,
                                       second_function, output_algebra, result,
                                       predictor_batch, target_batch)
       IN  /\ d_loss__d_w_output' = out[1]
           /\ d_loss__d_b_output' = out[2]
           /\ d_loss__d_w_second_hidden' = out[3]
           /\ d_loss__d_b_second_hidden' = out[4]
           /\ d_loss__d_w_first_hidden' = out[5]
           /\ d_loss__d_b_first_hidden' = out[6]
    /\ pc' = "update"
    /\ UNCHANGED <<dataVars, paramVars, loopVars, batchVars, cacheVars, evalVars, histVars>>

\* The loop headers, had the two for statements been nested the other way
\* round (samples outside, epochs inside).
NextIterationSampleMajor(e, n, count) ==
    IF e + 1 < epochs THEN [epoch |-> e + 1, i |-> n, pc |-> "forward"]
    ELSE IF n + 1 < count THEN [epoch |-> 0, i |-> n + 1, pc |-> "forward"]
    ELSE [epoch |-> e, i |-> n, pc |-> "trained"]

\* The loop headers, had the epoch loop been range(epochs - 1).
NextIterationOneEpochShort(e, n, count) ==
    IF n + 1 < count THEN [epoch |-> e, i |-> n + 1, pc |-> "forward"]
    ELSE IF e + 1 < epochs - 1 THEN [epoch |-> e + 1, i |-> 0, pc |-> "forward"]
    ELSE [epoch |-> e, i |-> n, pc |-> "trained"]

\* The two for headers after step (e, n) of a loop over count samples: the
\* next sample, or the first sample of the next epoch, or the end of the
\* loop, where both counters keep their last values.
NextIteration(e, n, count) ==
    IF n + 1 < count THEN [epoch |-> e, i |-> n + 1, pc |-> "forward"]
    ELSE IF e + 1 < epochs THEN [epoch |-> e + 1, i |-> 0, pc |-> "forward"]
    ELSE [epoch |-> e, i |-> n, pc |-> "trained"]

\* Update, had each layer's gradient been computed after the layer above it
\* was updated: the hidden layers' gradients then come from the new w_output
\* and the first layer's from the new w_second_hidden.
UpdateLayerByLayer ==
    /\ pc = "update"
    /\ LET new_w_output == ISub(w_output, SMul(learning_rate, d_loss__d_w_output))
           second == backward_with(new_w_output, w_second_hidden,
                                   first_algebra, first_function, second_algebra,
                                   second_function, output_algebra, result,
                                   predictor_batch, target_batch)
           new_w_second_hidden == ISub(w_second_hidden, SMul(learning_rate, second[3]))
           first == backward_with(new_w_output, new_w_second_hidden,
                                  first_algebra, first_function, second_algebra,
                                  second_function, output_algebra, result,
                                  predictor_batch, target_batch)
       IN  /\ w_output' = new_w_output
           /\ b_output' = ISub(b_output, SMul(learning_rate, d_loss__d_b_output))
           /\ w_second_hidden' = new_w_second_hidden
           /\ b_second_hidden' = ISub(b_second_hidden, SMul(learning_rate, second[4]))
           /\ w_first_hidden' = ISub(w_first_hidden, SMul(learning_rate, first[5]))
           /\ b_first_hidden' = ISub(b_first_hidden, SMul(learning_rate, first[6]))
    /\ updates' = updates + 1
    /\ visits' = [visits EXCEPT ![i + 1] = @ + 1]
    /\ LET next == NextIteration(epoch, i, Len(training_predictors))
       IN  /\ epoch' = next.epoch
           /\ i' = next.i
           /\ pc' = next.pc
    /\ UNCHANGED <<dataVars, batchVars, cacheVars, gradVars, evalVars>>

\* "update weights and biases" of step (epoch, i), then the loop headers.
Update ==
    /\ pc = "update"
    /\ w_first_hidden' = ISub(w_first_hidden, SMul(learning_rate, d_loss__d_w_first_hidden))
    /\ b_first_hidden' = ISub(b_first_hidden, SMul(learning_rate, d_loss__d_b_first_hidden))
    /\ w_second_hidden' = ISub(w_second_hidden, SMul(learning_rate, d_loss__d_w_second_hidden))
    /\ b_second_hidden' = ISub(b_second_hidden, SMul(learning_rate, d_loss__d_b_second_hidden))
    /\ w_output' = ISub(w_output, SMul(learning_rate, d_loss__d_w_output))
    /\ b_output' = ISub(b_output, SMul(learning_rate, d_loss__d_b_output))
    /\ updates' = updates + 1
    /\ visits' = [visits EXCEPT ![i + 1] = @ + 1]
    /\ LET next == NextIteration(epoch, i, Len(training_predictors))
       IN  /\ epoch' = next.epoch
           /\ i' = next.i
           /\ pc' = next.pc
    /\ UNCHANGED <<dataVars, batchVars, cacheVars, gradVars, evalVars>>

\* The chain, had its last branch tested predicted == 1 again (a copy of
\* the branch above it), so that no false negative is counted.
RECURSIVE TallyWithoutLastBranch(_, _, _)
TallyWithoutLastBranch(actual, predicted, n) ==
    IF n = 0 THEN <<0, 0, 0, 0>>
    ELSE LET t == TallyWithoutLastBranch(actual, predicted, n - 1)
         IN  IF actual[n] = 1 /\ predicted[n] = 1 THEN <<t[1] + 1, t[2], t[3], t[4]>>
             ELSE IF actual[n] = 0 /\ predicted[n] = 0 THEN <<t[1], t[2] + 1, t[3], t[4]>>
             ELSE IF actual[n] = 0 /\ predicted[n] = 1 THEN <<t[1], t[2], t[3] + 1, t[4]>>
             ELSE t

\* The if / elif chain of the evaluation cell over zip(actual, predicted):
\* <<TP, TN, FP, FN>> after the first n pairs.
RECURSIVE Tally(_, _, _)
Tally(actual, predicted, n) ==
    IF n = 0 THEN <<0, 0, 0, 0>>
    ELSE LET t == Tally(actual, predicted, n - 1)
         IN  IF actual[n] = 1 /\ predicted[n] = 1 THEN <<t[1] + 1, t[2], t[3], t[4]>>
             ELSE IF actual[n] = 0 /\ predicted[n] = 0 THEN <<t[1], t[2] + 1, t[3], t[4]>>
             ELSE IF actual[n] = 0 /\ predicted[n] = 1 THEN <<t[1], t[2], t[3] + 1, t[4]>>
             ELSE IF actual[n] = 1 /\ predicted[n] = 0 THEN <<t[1], t[2], t[3], t[4] + 1>>
             ELSE t

\* zip stops at the shorter list.
Min2(a, b) == IF a <= b THEN a ELSE b

RECURSIVE CountTrue(_, _)
CountTrue(flags, n) ==
    IF n = 0 THEN 0 ELSE CountTrue(flags, n - 1) + (IF flags[n] THEN 1 ELSE 0)

\* (A == B).mean(): the share of equal elements, with broadcasting.
MeanEqual(A, B) ==
    LET rows == Max2(Rows(A), Rows(B))
        cols == Max2(Cols(A), Cols(B))
        F(k) == At(A, ((k - 1) \div cols) + 1, ((k - 1) % cols) + 1)
                    = At(B, ((k - 1) \div cols) + 1, ((k - 1) % cols) + 1)
    IN  RDiv(CountTrue(Vector(rows * cols, F), rows * cols) * Scale, rows * cols)

\* The evaluation cell: one batched forward call on the whole test matrix.
Predict == RoundToInt(forward_propagation(Transpose(testing_predictors))[6])

\* The evaluation cell, had it lacked the line TP = FP = TN = FN = 0: the
\* counts of a second run add to those of the first.
EvaluateWithoutReset ==
    /\ pc \in {"trained", "evaluated"}
    /\ predictions' = Predict
    /\ LET actual == Flatten(testing_response)
           predicted == Flatten(predictions')
           t == Tally(actual, predicted, Min2(Len(actual), Len(predicted)))
       IN  /\ TP' = TP + t[1]
           /\ TN' = TN + t[2]
           /\ FP' = FP + t[3]
           /\ FN' = FN + t[4]
    /\ accuracy' = MeanEqual(predictions', Transpose(testing_response))
    /\ pc' = IF pc = "trained" THEN "evaluated" ELSE "evaluated_again"
    /\ UNCHANGED <<dataVars, paramVars, loopVars, batchVars, cacheVars, gradVars, histVars>>

\* The evaluation cell; a notebook cell can be run again, which the model
\* allows once.
Evaluate ==
    /\ pc \in {"trained", "evaluated"}
    /\ predictions' = Predict
    /\ LET actual == Flatten(testing_response)
           predicted == Flatten(predictions')
           t == Tally(actual, predicted, Min2(Len(actual), Len(predicted)))
       IN  /\ TP' = t[1]
           /\ TN' = t[2]
           /\ FP' = t[3]
           /\ FN' = t[4]
    /\ accuracy' = MeanEqual(predictions', Transpose(testing_response))
    /\ pc' = IF pc = "trained" THEN "evaluated" ELSE "evaluated_again"
    /\ UNCHANGED <<dataVars, paramVars, loopVars, batchVars, cacheVars, gradVars, histVars>>

Next == Forward \/ Backward \/ Update \/ Evaluate

Spec == Init /\ [][Next]_vars

\* The position of the program moves on: every step of Next changes pc, and
\* a step is possible in every state but the one after the last cell.
Advance ==
    /\ pc # "evaluated_again"
    /\ pc' \in {"forward", "backward", "update", "trained", "evaluated",
               "evaluated_again"} \ {pc}

\* The sequential program keeps running until its last cell has run. On the
\* behaviours of Spec the steps of Advance are the steps of Next and both
\* are enabled in the same states, so this is weak fairness of Next.
FairSpec == Spec /\ WF_pc(Advance)

\* ------------------------------------------------- the activations alone

ActivationStep == Scale \div 4

\* logistic and d_logistic called on a (1, 1) pre-activation of any
\* magnitude, as forward_propagation and backward_propagation call them on
\* output_algebra; result holds what the call returned.
ActivationInit ==
    /\ output_algebra \in {<<<<m * ActivationStep>>>> : m \in -MaxSteps..MaxSteps}
    /\ result = Unset
    /\ pc = "call"
    /\ training_predictors = Unset
    /\ training_response = Unset
    /\ testing_predictors = Unset
    /\ testing_response = Unset
    /\ w_first_hidden = Unset
    /\ b_first_hidden = Unset
    /\ w_second_hidden = Unset
    /\ b_second_hidden = Unset
    /\ w_output = Unset
    /\ b_output = Unset
    /\ predictor_batch = Unset
    /\ target_batch = Unset
    /\ first_algebra = Unset
    /\ first_function = Unset
    /\ second_algebra = Unset
    /\ second_function = Unset
    /\ d_loss__d_w_output = Unset
    /\ d_loss__d_b_output = Unset
    /\ d_loss__d_w_second_hidden = Unset
    /\ d_loss__d_b_second_hidden = Unset
    /\ d_loss__d_w_first_hidden = Unset
    /\ d_loss__d_b_first_hidden = Unset
    /\ predictions = Unset
    /\ visits = Unset
    /\ epoch = 0
    /\ i = 0
    /\ TP = 0
    /\ FP = 0
    /\ TN = 0
    /\ FN = 0
    /\ accuracy = 0
    /\ updates = 0

ApplyLogistic ==
    /\ pc = "call"
    /\ result' = logistic(output_algebra)
    /\ pc' = "logistic"
    /\ UNCHANGED <<dataVars, paramVars, loopVars, batchVars, first_algebra,
                   first_function, second_algebra, second_function,
                   output_algebra, gradVars, evalVars, histVars>>

ApplyDLogistic ==
    /\ pc = "call"
    /\ result' = d_logistic(output_algebra)
    /\ pc' = "d_logistic"
    /\ UNCHANGED <<dataVars, paramVars, loopVars, batchVars, first_algebra,
                   first_function, second_algebra, second_function,
                   output_algebra, gradVars, evalVars, histVars>>

ActivationNext == ApplyLogistic \/ ApplyDLogistic

ActivationSpec == ActivationInit /\ [][ActivationNext]_vars

\* ------------------------------------------------------------------ claims

NumTraining == Len(training_predictors)

NumTesting == Len(testing_predictors)

InStep == pc \in {"forward", "backward", "update"}

AnyNonZero(A) == \E r \in 1..Rows(A) : \E c \in 1..Cols(A) : A[r][c] # 0

\* The six gradients of sample i at the parameters of the current state, in
\* the order backward_propagation returns them.
StepGradients ==
    LET x == Column(training_predictors[i + 1])
        out == forward_propagation(x)
    IN  backward_propagation(out[1], out[2], out[3], out[4], out[5], out[6],
                             x, training_response[i + 1])

\* Pnew = P - learning_rate * G, element by element, in the shape of P.
Descended(Pnew, P, G) ==
    /\ Shape(Pnew) = Shape(P)
    /\ Shape(G) = Shape(P)
    /\ \A r \in 1..Rows(P) : \A c \in 1..Cols(P) :
          Pnew[r][c] = P[r][c] - Mul(learning_rate, G[r][c])

\* C1: the update of every step leaves each of the six parameter tensors at
\* its value before the step minus learning_rate times its gradient, all six
\* gradients being those of the step's sample at the parameters held before
\* the step (none is computed from a tensor the step has already updated).
C1_UpdateUsesPreStepGradients ==
    [][pc = "update" =>
        LET g == StepGradients
        IN  /\ Descended(w_output', w_output, g[1])
            /\ Descended(b_output', b_output, g[2])
            /\ Descended(w_second_hidden', w_second_hidden, g[3])
            /\ Descended(b_second_hidden', b_second_hidden, g[4])
            /\ Descended(w_first_hidden', w_first_hidden, g[5])
            /\ Descended(b_first_hidden', b_first_hidden, g[6])]_vars

\* C1 witness: an update is about to move all three weight tensors, so the
\* gradients of the lower layers are taken while w_output is about to change.
C1_Witness ==
    /\ pc = "update"
    /\ AnyNonZero(SMul(learning_rate, d_loss__d_w_output))
    /\ AnyNonZero(SMul(learning_rate, d_loss__d_w_second_hidden))
    /\ AnyNonZero(SMul(learning_rate, d_loss__d_w_first_hidden))

\* C2: the loop visits (epoch, i) in epoch-major order, i ascending from 0 to
\* N - 1 in every epoch, starting at (0, 0); the training set is never
\* reordered; and within a pair the order is forward, backward, update, the
\* next pair's forward coming only after this pair's update.
C2_EpochMajorOrder ==
    /\ (pc = "forward" => epoch = 0 /\ i = 0)
    /\ [][/\ dataVars' = dataVars
          /\ pc = "forward" =>
                /\ pc' = "backward"
                /\ loopVars' = loopVars
                /\ predictor_batch' = Column(training_predictors[i + 1])
                /\ target_batch' = training_response[i + 1]
          /\ pc = "backward" =>
                /\ pc' = "update"
                /\ loopVars' = loopVars
                /\ batchVars' = batchVars
          /\ pc = "update" =>
                IF i + 1 < NumTraining
                THEN pc' = "forward" /\ epoch' = epoch /\ i' = i + 1
                ELSE IF epoch + 1 < epochs
                THEN pc' = "forward" /\ epoch' = epoch + 1 /\ i' = 0
                ELSE pc' = "trained"]_vars

\* C2 witness: the last sample of an epoch that is not the last has been
\* updated from, so the loop is about to wrap to sample 0 of the next epoch.
C2_Witness ==
    /\ pc = "update"
    /\ NumTraining > 1
    /\ i = NumTraining - 1
    /\ epoch = 1

\* C3: in every step the cache on which the backward pass runs is the
\* forward pass of that step's own sample at the parameters the tensors hold
\* then (so they did not change in between), and the gradients are the
\* backward pass of exactly that cache with that sample's input and label.
C3_BackwardConsumesOwnForward ==
    /\ pc \in {"backward", "update"} =>
          /\ predictor_batch = Column(training_predictors[i + 1])
          /\ target_batch = training_response[i + 1]
          /\ cacheVars = forward_propagation(Column(training_predictors[i + 1]))
    /\ pc = "update" =>
          gradVars = backward_propagation(first_algebra, first_function, second_algebra,
                                          second_function, output_algebra, result,
                                          Column(training_predictors[i + 1]),
                                          training_response[i + 1])

\* C3 witness: a backward pass has run for a sample other than the first,
\* whose label and cache differ from those of the sample before it.
C3_Witness ==
    /\ pc = "update"
    /\ i > 0
    /\ training_response[i + 1] # training_response[i]
    /\ AnyNonZero(d_loss__d_w_first_hidden)

\* A call of backward_propagation, in the current state, on the eight values
\* the names of the cache and of the batch hold.
BackwardOfCache ==
    backward_propagation(first_algebra, first_function, second_algebra,
                         second_function, output_algebra, result,
                         predictor_batch, target_batch)

\* The step's call of backward_propagation has returned gradVars, the update
\* that followed it has run, and the names of the cache and of the batch
\* still hold the eight arguments of that call: a second call made now gets
\* equal arguments in a later parameter state.
SecondCallAfterUpdate ==
    /\ pc \in {"forward", "trained", "evaluated"}
    /\ updates > 0

\* The update between the two calls subtracted zero from w_output and from
\* w_second_hidden, so both hold the values they held at the first call.
ReadWeightsUnmoved ==
    /\ ~AnyNonZero(SMul(learning_rate, d_loss__d_w_output))
    /\ ~AnyNonZero(SMul(learning_rate, d_loss__d_w_second_hidden))

\* C4 as stated: two calls of backward_propagation with equal arguments
\* return equal gradients whatever the parameter tensors hold at the time
\* of each call: the call before an update and a call after it agree.
C4_PureInEightArguments ==
    SecondCallAfterUpdate => BackwardOfCache = gradVars

\* C4 as amended: two calls with equal arguments return equal gradients
\* whenever w_output and w_second_hidden hold the same values at both calls,
\* whatever the other four tensors hold; and the call of a training step
\* changes neither the parameters nor its arguments nor the data.
C4_PureGivenReadWeights ==
    /\ []((SecondCallAfterUpdate /\ ReadWeightsUnmoved) => BackwardOfCache = gradVars)
    /\ [][pc = "backward" =>
            /\ dataVars' = dataVars
            /\ paramVars' = paramVars
            /\ loopVars' = loopVars
            /\ batchVars' = batchVars
            /\ cacheVars' = cacheVars]_vars

\* C4 witness: a second call is possible after an update that moved biases
\* but neither w_output nor w_second_hidden, for a sample with an active
\* unit in the second hidden layer that the output reads.
C4_Witness ==
    /\ SecondCallAfterUpdate
    /\ ReadWeightsUnmoved
    /\ AnyNonZero(SMul(learning_rate, d_loss__d_b_output))
    /\ \E j \in 1..NHidden : second_algebra[j][1] > 0 /\ w_output[1][j] # 0

\* C5: forward_propagation has no side effect.  The steps that call it (a
\* training step's forward call, the evaluation) leave the six parameter
\* tensors and the data unchanged, the input it was given is still the
\* sample's column afterwards, and the six values it returned are those
\* determined by the parameters and that input.
C5_ForwardHasNoSideEffect ==
    /\ [][(pc = "forward" \/ pc = "trained") => (paramVars' = paramVars /\ dataVars' = dataVars)]_vars
    /\ [][pc = "forward" =>
            /\ predictor_batch' = Column(training_predictors[i + 1])
            /\ cacheVars' = forward_propagation(predictor_batch')]_vars
    /\ [](pc = "evaluated" => predictions = Predict)

\* C5 witness: a forward call has returned a cache with active units in both
\* hidden layers, computed from parameters that training has already moved.
C5_Witness ==
    /\ pc = "backward"
    /\ updates > 0
    /\ AnyNonZero(first_function)
    /\ AnyNonZero(second_function)
    /\ w_first_hidden # PresetAt(2).w1

\* C6: the training run ends, and when it has ended exactly epochs * N
\* update steps have run and every training sample has been the sample of
\* exactly epochs of them; until then the number of update steps done is the
\* position of the loop (no step is repeated or skipped).
C6_TerminatesAfterAllSteps ==
    /\ [](updates = epoch * NumTraining + i
                      + (IF InStep THEN 0 ELSE 1))
    /\ [](InStep => updates < epochs * NumTraining)
    /\ [](~InStep =>
            /\ updates = epochs * NumTraining
            /\ \A k \in 1..NumTraining : visits[k] = epochs)
    /\ <>(pc = "trained")

\* C6 witness: the loop over a training set of several samples has ended.
C6_Witness ==
    /\ pc = "trained"
    /\ NumTraining > 1
    /\ updates = epochs * NumTraining

\* The network outputs of the test samples at the current parameters:
\* element 5 of the batched forward call, one column per sample.
TestOutputs == forward_propagation(Transpose(testing_predictors))[6]

\* C7 as stated: an output of exactly 0.5 gives class 1, as does every
\* output above 0.5; every output below 0.5 gives class 0.
C7_TiesRoundUp ==
    pc = "evaluated" =>
        \A c \in 1..NumTesting :
            /\ 2 * TestOutputs[1][c] >= Scale => predictions[1][c] = 1
            /\ 2 * TestOutputs[1][c] < Scale => predictions[1][c] = 0

\* C7 as amended: an output of exactly 0.5 gives class 0 (NumPy rounds a half
\* to the even neighbour); every output above 0.5 gives class 1 and every
\* output below 0.5 gives class 0.
C7_TiesRoundToEven ==
    pc = "evaluated" =>
        \A c \in 1..NumTesting :
            /\ 2 * TestOutputs[1][c] > Scale => predictions[1][c] = 1
            /\ 2 * TestOutputs[1][c] < Scale => predictions[1][c] = 0
            /\ 2 * TestOutputs[1][c] = Scale => predictions[1][c] = 0

\* C7 witness: the evaluation has rounded an output of exactly 0.5.
C7_Witness ==
    /\ pc = "evaluated"
    /\ \E c \in 1..NumTesting : 2 * TestOutputs[1][c] = Scale

\* The test samples with true label a and predicted class b.
Cell(a, b) == {k \in 1..NumTesting : testing_response[k][1] = a /\ predictions[1][k] = b}

Upstream(W, d, j) == DotTo(Transpose(W), d, j, 1, Rows(W))

\* C9: the gradients the backward pass has returned pass the upstream
\* gradient of a hidden unit unchanged where the unit's pre-activation is
\* > 0 and are 0 where it is <= 0, in particular where it is exactly 0, in
\* both hidden layers.
C9_ReluDerivativeIsStrictIndicator ==
    pc = "update" =>
        \A j \in 1..NHidden :
            /\ d_loss__d_b_second_hidden[j][1] =
                  (IF second_algebra[j][1] > 0
                   THEN Upstream(w_output, d_loss__d_b_output, j)
                   ELSE 0)
            /\ d_loss__d_b_first_hidden[j][1] =
                  (IF first_algebra[j][1] > 0
                   THEN Upstream(w_second_hidden, d_loss__d_b_second_hidden, j)
                   ELSE 0)

\* C9 witness: a backward pass has run where a unit of each hidden layer has
\* a pre-activation of exactly 0 and a non-zero upstream gradient.
C9_Witness ==
    /\ pc = "update"
    /\ \E j \in 1..NHidden :
          /\ second_algebra[j][1] = 0
          /\ Upstream(w_output, d_loss__d_b_output, j) # 0
    /\ \E j \in 1..NHidden :
          /\ first_algebra[j][1] = 0
          /\ Upstream(w_second_hidden, d_loss__d_b_second_hidden, j) # 0

\* a is relu of z, element by element: a >= 0, a = z where z > 0, a = 0
\* where z <= 0, and a = (z + |z|) / 2.
IsReluOf(a, z) ==
    /\ Shape(a) = Shape(z)
    /\ \A r \in 1..Rows(z) : \A c \in 1..Cols(z) :
          /\ a[r][c] >= 0
          /\ z[r][c] > 0 => a[r][c] = z[r][c]
          /\ z[r][c] <= 0 => a[r][c] = 0
          /\ 2 * a[r][c] = z[r][c] + Abs(z[r][c])

\* C10: the activations the forward pass has returned are relu of the
\* pre-activations in both hidden layers: never negative, equal to the
\* pre-activation where it is > 0, 0 where it is <= 0, and equal to
\* (x + |x|) / 2.
C10_ReluIsPositivePart ==
    pc \in {"backward", "update"} =>
        /\ IsReluOf(first_function, first_algebra)
        /\ IsReluOf(second_function, second_algebra)

\* C10 witness: a forward pass has returned pre-activations of all three
\* signs in the first hidden layer.
C10_Witness ==
    /\ pc = "backward"
    /\ \E r \in 1..NHidden : first_algebra[r][1] < 0
    /\ \E r \in 1..NHidden : first_algebra[r][1] = 0
    /\ \E r \in 1..NHidden : first_algebra[r][1] > 0

\* The shapes of the six parameter tensors, in the order of paramVars.
ParamShapes ==
    <<Shape(w_first_hidden), Shape(b_first_hidden), Shape(w_second_hidden),
      Shape(b_second_hidden), Shape(w_output), Shape(b_output)>>

\* The shapes of the six gradients, in the order of the parameters they
\* update.
GradShapes ==
    <<Shape(d_loss__d_w_first_hidden), Shape(d_loss__d_b_first_hidden),
      Shape(d_loss__d_w_second_hidden), Shape(d_loss__d_b_second_hidden),
      Shape(d_loss__d_w_output), Shape(d_loss__d_b_output)>>

ForwardShapes ==
    << <<NHidden, 1>>, <<NHidden, 1>>, <<NHidden, 1>>, <<NHidden, 1>>,
       <<1, 1>>, <<1, 1>> >>

ShapesOf(out) == [k \in 1..Len(out) |-> Shape(out[k])]

\* C12: what forward_propagation has returned for the (4,1) column of a
\* training sample has the shapes (16,1), (16,1), (16,1), (16,1), (1,1),
\* (1,1) and is, in this order, z1 = W1 x + b1, a1 = relu(z1),
\* z2 = W2 a1 + b2, a2 = relu(z2), z3 = W3 a2 + b3, y_hat = logistic(z3);
\* the same shapes result for the column of every test sample at the
\* trained parameters.
C12_ForwardShapesAndOrder ==
    /\ pc = "backward" =>
          /\ Shape(predictor_batch) = <<NIn, 1>>
          /\ ShapesOf(cacheVars) = ForwardShapes
          /\ first_algebra = Add(MatMul(w_first_hidden, predictor_batch), b_first_hidden)
          /\ first_function = relu(first_algebra)
          /\ second_algebra = Add(MatMul(w_second_hidden, first_function), b_second_hidden)
          /\ second_function = relu(second_algebra)
          /\ output_algebra = Add(MatMul(w_output, second_function), b_output)
          /\ result = logistic(output_algebra)
    /\ pc = "trained" =>
          \A c \in 1..NumTesting :
              ShapesOf(forward_propagation(Column(testing_predictors[c]))) = ForwardShapes

\* C12 witness: a forward call on a column with entries of both signs, at
\* parameters that training has already moved, has returned pre-activations
\* of both signs.
C12_Witness ==
    /\ pc = "backward"
    /\ updates > 0
    /\ \E r \in 1..NIn : predictor_batch[r][1] < 0
    /\ \E r \in 1..NIn : predictor_batch[r][1] > 0
    /\ \E r \in 1..NHidden : first_algebra[r][1] < 0
    /\ \E r \in 1..NHidden : second_algebra[r][1] > 0

\* C13: running the evaluation cell changes neither the six parameter
\* tensors nor the training and test data, and running it a second time,
\* straight after the first, leaves the predictions, the four counts and the
\* accuracy as the first run set them.
C13_EvaluationIsIdempotent ==
    /\ [][(pc = "trained" \/ pc = "evaluated") =>
            /\ paramVars' = paramVars
            /\ dataVars' = dataVars]_vars
    /\ [][pc = "evaluated" => evalVars' = evalVars]_vars

\* C13 witness: the evaluation cell has run twice on a test set of two
\* samples, one of which it classifies correctly and one not.
C13_Witness ==
    /\ pc = "evaluated_again"
    /\ NumTesting = 2
    /\ TP + TN = 1
    /\ FP + FN = 1

\* The six tensors of a parameter cell, in the order of paramVars.
TensorsOf(drawn) == <<drawn.w1, drawn.b1, drawn.w2, drawn.b2, drawn.w3, drawn.b3>>

\* The four arrays the split makes of a table, in the order of dataVars.
SplitOf(data) ==
    <<TakeRows(Predictors(data), SplitIndex(data)),
      TakeRows(Response(data), SplitIndex(data)),
      DropRows(Predictors(data), SplitIndex(data)),
      DropRows(Response(data), SplitIndex(data))>>

PredictorsOfRow(d, r) == [c \in 1..NIn |-> d[r][c]]

LabelOfRow(d, r) == <<d[r][NIn + 1]>>

\* C15: the training set is the first floor(2N/3) rows of the shuffled table
\* of N rows, in the table's order, and the test set is the remaining rows,
\* in the table's order: every row is in exactly one of the two, and row r
\* of each set carries the predictors and the label of the same table row.
C15_SplitAtTwoThirds ==
    \E k \in 1..NumTables :
        LET d == TableAt(k)
        IN  /\ 3 * NumTraining <= 2 * Len(d)
            /\ 2 * Len(d) < 3 * NumTraining + 3
            /\ NumTraining + NumTesting = Len(d)
            /\ Len(training_response) = NumTraining
            /\ Len(testing_response) = NumTesting
            /\ \A r \in 1..NumTraining :
                  /\ training_predictors[r] = PredictorsOfRow(d, r)
                  /\ training_response[r] = LabelOfRow(d, r)
            /\ \A r \in 1..NumTesting :
                  /\ testing_predictors[r] = PredictorsOfRow(d, NumTraining + r)
                  /\ testing_response[r] = LabelOfRow(d, NumTraining + r)

\* C15 witness: a table of four rows, where 2N/3 is not an integer, has
\* been split into two training and two test rows, and its rows are
\* pairwise different with labels of both classes.
C15_Witness ==
    /\ NumTraining = 2
    /\ NumTesting = 2
    /\ training_predictors[1] # training_predictors[2]
    /\ testing_predictors[1] # testing_predictors[2]
    /\ training_predictors[2] # testing_predictors[1]
    /\ training_response[1] # training_response[2]
    /\ pc = "backward"

\* C16 as stated: for a pre-activation of any magnitude, logistic returns
\* a value (not nan) that is neither exactly 0 nor exactly 1 and lies
\* between them, 0.5 at 0, and not below its value at a smaller
\* pre-activation; and d_logistic returns a value (not nan).
C16_LogisticTotalAndStrict ==
    /\ pc = "logistic" =>
          /\ result[1][1] # NaN
          /\ ~LogisticIsZero(output_algebra[1][1])
          /\ ~LogisticIsOne(output_algebra[1][1])
          /\ result[1][1] >= 0
          /\ result[1][1] <= Scale
          /\ output_algebra[1][1] = 0 => 2 * result[1][1] = Scale
          /\ LogisticFx(output_algebra[1][1] - ActivationStep) <= result[1][1]
    /\ pc = "d_logistic" => result[1][1] # NaN

\* What forward_propagation returns for test sample c alone, as a (4, 1)
\* column, at the current parameters.
ForwardOfTestSample(c) == forward_propagation(Column(testing_predictors[c]))

ZeroRow(G, j) == \A c \in 1..Cols(G) : G[j][c] = 0

\* The update step leaves b[j] and row j of the weight matrix of a hidden
\* layer as they were, for every unit j of that layer whose pre-activation
\* for the current sample is <= 0.
InactiveUnitsKept ==
    \A j \in 1..NHidden :
        /\ second_algebra[j][1] <= 0 =>
              /\ w_second_hidden'[j] = w_second_hidden[j]
              /\ b_second_hidden'[j] = b_second_hidden[j]
        /\ first_algebra[j][1] <= 0 =>
              /\ w_first_hidden'[j] = w_first_hidden[j]
              /\ b_first_hidden'[j] = b_first_hidden[j]

=============================================================================
